---- MODULE Spec2Model ----
(***************************************************************************)
(* Model of scripts/build_search_chunks.py: the extractor                  *)
(* (load_all_dialogues, extract_dialogues_recursive), the chunker          *)
(* (split_into_chunks) and the packager (compress_and_save_chunks), run by *)
(* main() against a corpus directory and an output directory.              *)
(*                                                                         *)
(* Text is modelled as a sequence of Unicode code points, a JSON value as  *)
(* a record with a type tag, so that splitting, replacing, parsing and     *)
(* measuring the encoded size are computed as the code computes them.      *)
(***************************************************************************)
EXTENDS Integers, Sequences, FiniteSets, TLC

(***************************************************************************)
(* Bounds of the model.                                                    *)
(***************************************************************************)
MaxDocs == 2          \* documents in a corpus
MaxRuns == 2          \* builds run one after the other on one output directory
MaxClock == 2         \* the clock reads 0..MaxClock
BudgetSteps == 2      \* budgets tried: BudgetUnit * (1..BudgetSteps)
BudgetUnit == 100     \* spacing of the budgets tried (bytes)
TicksPerDay == 2      \* clock ticks in one calendar date

(***************************************************************************)
(* Text: sequences of code points.                                         *)
(***************************************************************************)
\* the sum of s[lo..hi], halving the range
RECURSIVE SumRange(_, _, _)
SumRange(s, lo, hi) ==
    IF lo > hi THEN 0
    ELSE IF lo = hi THEN s[lo]
    ELSE LET mid == (lo + hi) \div 2
         IN  SumRange(s, lo, mid) + SumRange(s, mid + 1, hi)

SumSeq(s) == SumRange(s, 1, Len(s))

RECURSIVE Concat(_)
Concat(ss) == IF ss = <<>> THEN <<>> ELSE Head(ss) \o Concat(Tail(ss))

StartsWith(s, p) == Len(s) >= Len(p) /\ SubSeq(s, 1, Len(p)) = p

Drop(s, n) == SubSeq(s, n + 1, Len(s))

\* str.replace(old, new): every non-overlapping occurrence, left to right
RECURSIVE Replace(_, _, _)
Replace(s, old, new) ==
    IF s = <<>> THEN <<>>
    ELSE IF StartsWith(s, old) THEN new \o Replace(Drop(s, Len(old)), old, new)
    ELSE <<Head(s)>> \o Replace(Tail(s), old, new)

\* str.split(sep)[0]: the text before the first separator
RECURSIVE FirstSegment(_, _)
FirstSegment(s, sep) ==
    IF s = <<>> \/ Head(s) = sep THEN <<>>
    ELSE <<Head(s)>> \o FirstSegment(Tail(s), sep)

\* the characters str.strip() and int() treat as whitespace
IsSpace(c) == c \in {9, 10, 11, 12, 13, 28, 29, 30, 31, 32, 133, 160, 12288}

RECURSIVE LStrip(_)
LStrip(s) == IF s # <<>> /\ IsSpace(Head(s)) THEN LStrip(Tail(s)) ELSE s

RECURSIVE RStrip(_)
RStrip(s) ==
    IF s # <<>> /\ IsSpace(s[Len(s)]) THEN RStrip(SubSeq(s, 1, Len(s) - 1)) ELSE s

Strip(s) == RStrip(LStrip(s))

IsDigit(c) == c \in 48..57

\* the digits of int(): ASCII digits, single underscores between digits
DigitsOk(s) ==
    /\ s # <<>>
    /\ \A i \in 1..Len(s) :
         \/ IsDigit(s[i])
         \/ s[i] = 95 /\ i > 1 /\ i < Len(s) /\ IsDigit(s[i - 1]) /\ IsDigit(s[i + 1])

RECURSIVE DigitsValue(_, _)
DigitsValue(s, acc) ==
    IF s = <<>> THEN acc
    ELSE IF Head(s) = 95 THEN DigitsValue(Tail(s), acc)
    ELSE DigitsValue(Tail(s), 10 * acc + (Head(s) - 48))

\* int(text): [ok |-> FALSE] stands for ValueError
ParseInt(text) ==
    LET t == Strip(text)
        body == IF t # <<>> /\ Head(t) \in {43, 45} THEN Tail(t) ELSE t
        neg == t # <<>> /\ Head(t) = 45
    IN  IF DigitsOk(body)
        THEN [ok |-> TRUE, val |-> IF neg THEN 0 - DigitsValue(body, 0) ELSE DigitsValue(body, 0)]
        ELSE [ok |-> FALSE, val |-> 0]

\* lexicographic order of two texts, as Python compares str
RECURSIVE LexLess(_, _)
LexLess(a, b) ==
    IF b = <<>> THEN FALSE
    ELSE IF a = <<>> THEN TRUE
    ELSE IF Head(a) # Head(b) THEN Head(a) < Head(b)
    ELSE LexLess(Tail(a), Tail(b))

\* bytes json.dumps(ensure_ascii=False) then UTF-8 spends on one character
CharBytes(c) ==
    IF c \in {34, 92, 8, 9, 10, 12, 13} THEN 2
    ELSE IF c < 32 THEN 6
    ELSE IF c < 128 THEN 1
    ELSE IF c < 2048 THEN 2
    ELSE IF c < 65536 THEN 3
    ELSE 4

TextBytes(s) == 2 + SumSeq([i \in 1..Len(s) |-> CharBytes(s[i])])

RECURSIVE IntDigits(_)
IntDigits(n) == IF n < 0 THEN 1 + IntDigits(0 - n) ELSE IF n < 10 THEN 1 ELSE 1 + IntDigits(n \div 10)

(***************************************************************************)
(* JSON values as json.load returns them: str, int, null, list, dict.      *)
(* The tag "unreadable" stands for a file json.load cannot parse.          *)
(***************************************************************************)
JStr(cs) == [t |-> "str", s |-> cs, k |-> <<>>, l |-> <<>>]
JInt(n) == [t |-> "int", s |-> <<n>>, k |-> <<>>, l |-> <<>>]
JNull == [t |-> "null", s |-> <<>>, k |-> <<>>, l |-> <<>>]
JList(xs) == [t |-> "list", s |-> <<>>, k |-> <<>>, l |-> xs]
JDict(keys, vals) == [t |-> "dict", s |-> <<>>, k |-> keys, l |-> vals]
Unreadable == [t |-> "unreadable", s |-> <<>>, k |-> <<>>, l |-> <<>>]

SeqRange(s) == {s[i] : i \in 1..Len(s)}

RECURSIVE Contains(_, _)
Contains(s, p) ==
    IF StartsWith(s, p) THEN TRUE
    ELSE IF s = <<>> THEN FALSE
    ELSE Contains(Tail(s), p)

\* Python's `key in v`: "raise" stands for TypeError
HasKey(v, key) ==
    IF v.t = "dict" THEN IF key \in SeqRange(v.k) THEN "yes" ELSE "no"
    ELSE IF v.t = "list" THEN IF JStr(key) \in SeqRange(v.l) THEN "yes" ELSE "no"
    ELSE IF v.t = "str" THEN IF Contains(v.s, key) THEN "yes" ELSE "no"
    ELSE "raise"

\* v[key] of a dict that has the key
DictGet(v, key) == v.l[CHOOSE i \in 1..Len(v.k) : v.k[i] = key]

\* len(json.dumps(v, ensure_ascii=False, separators=(itemSep, keySep)).encode('utf-8'))
RECURSIVE JsonBytes(_, _, _)
JsonBytes(v, itemSep, keySep) ==
    LET n == Len(v.l)
        seps == IF n > 1 THEN itemSep * (n - 1) ELSE 0
    IN  IF v.t = "str" THEN TextBytes(v.s)
        ELSE IF v.t = "int" THEN IntDigits(v.s[1])
        ELSE IF v.t = "null" THEN 4
        ELSE IF v.t = "list"
        THEN 2 + seps + SumSeq([i \in 1..n |-> JsonBytes(v.l[i], itemSep, keySep)])
        ELSE 2 + seps + SumSeq([i \in 1..n |->
                 TextBytes(v.k[i]) + keySep + JsonBytes(v.l[i], itemSep, keySep)])

(***************************************************************************)
(* Names that occur in the code.                                           *)
(***************************************************************************)
kTitle == <<84, 105, 116, 108, 101>>
kDialogue == <<68, 105, 97, 108, 111, 103, 117, 101>>
kBranch == <<98, 114, 97, 110, 99, 104>>
kScenarioType == <<115, 99, 101, 110, 97, 114, 105, 111, 84, 121, 112, 101>>
kScenarioId == <<115, 99, 101, 110, 97, 114, 105, 111, 73, 100>>
kSpeaker == <<115, 112, 101, 97, 107, 101, 114>>
kContent == <<99, 111, 110, 116, 101, 110, 116>>
kTitleLower == <<116, 105, 116, 108, 101>>
kDialogues == <<100, 105, 97, 108, 111, 103, 117, 101, 115>>
kChunkIndex == <<99, 104, 117, 110, 107, 73, 110, 100, 101, 120>>
kTotalChunks == <<116, 111, 116, 97, 108, 67, 104, 117, 110, 107, 115>>
ChoiceSpeaker == <<36984, 25246, 32930>>
BrMarkup == <<60, 98, 114, 62>>
DotJson == <<46, 106, 115, 111, 110>>
Bar == 124
Dash == 45
Space == 32

(***************************************************************************)
(* A Record of the flat sequence: the dict appended to all_dialogues.      *)
(***************************************************************************)
MakeRecord(scenario_type, scenario_id, speaker, content, title) ==
    [scenarioType |-> JStr(scenario_type), scenarioId |-> JStr(scenario_id),
     speaker |-> speaker, content |-> content, title |-> title]

RecordJson(r) ==
    JDict(<<kScenarioType, kScenarioId, kSpeaker, kContent, kTitleLower>>,
          <<r.scenarioType, r.scenarioId, r.speaker, r.content, r.title>>)

(***************************************************************************)
(* extract_dialogues_recursive.  ctx carries scenario_type, scenario_id    *)
(* and title; acc is all_dialogues, which the code appends to in place.    *)
(* The result is the list after the call and whether the call raised: what *)
(* was appended before an exception stays appended.                        *)
(***************************************************************************)
LineRecord(item, ctx) == MakeRecord(ctx.type, ctx.id, item.l[1], item.l[2], ctx.title)

ChoiceRecord(option, ctx) == MakeRecord(ctx.type, ctx.id, JStr(ChoiceSpeaker), option.l[1], ctx.title)

RECURSIVE ExtractItems(_, _, _)
RECURSIVE ExtractOptions(_, _, _)

\* a slip: a node of a shape that is not recognised raises instead of being skipped
ExtractItem_RejectsUnrecognised(item, ctx, acc) ==
    IF item.t = "list" /\ Len(item.l) = 2
    THEN [out |-> Append(acc, LineRecord(item, ctx)), raised |-> FALSE]
    ELSE IF item.t = "dict" /\ kBranch \in SeqRange(item.k)
    THEN LET b == DictGet(item, kBranch)
         IN  IF b.t = "list" THEN ExtractOptions(b.l, ctx, acc)
             ELSE IF b.t \in {"str", "dict"} THEN [out |-> acc, raised |-> FALSE]
             ELSE [out |-> acc, raised |-> TRUE]
    ELSE [out |-> acc, raised |-> TRUE]

ExtractItem(item, ctx, acc) ==
    IF item.t = "list" /\ Len(item.l) = 2
    THEN [out |-> Append(acc, LineRecord(item, ctx)), raised |-> FALSE]
    ELSE IF item.t = "dict" /\ kBranch \in SeqRange(item.k)
    THEN LET b == DictGet(item, kBranch)
         IN  IF b.t = "list" THEN ExtractOptions(b.l, ctx, acc)
             \* iterating a str yields characters, a dict its keys: no option is a list
             ELSE IF b.t \in {"str", "dict"} THEN [out |-> acc, raised |-> FALSE]
             \* null or a number is not iterable: TypeError
             ELSE [out |-> acc, raised |-> TRUE]
    ELSE [out |-> acc, raised |-> FALSE]

\* a slip: the choice entry appended after the option's nested dialogues
ExtractOption_ChoiceLast(option, ctx, acc) ==
    IF option.t = "list" /\ Len(option.l) >= 2
    THEN IF option.l[2].t = "list"
         THEN LET r == ExtractItems(option.l[2].l, ctx, acc)
              IN  [out |-> Append(r.out, ChoiceRecord(option, ctx)), raised |-> r.raised]
         ELSE [out |-> Append(acc, ChoiceRecord(option, ctx)), raised |-> FALSE]
    ELSE [out |-> acc, raised |-> FALSE]

ExtractOption(option, ctx, acc) ==
    IF option.t = "list" /\ Len(option.l) >= 2
    THEN LET acc1 == Append(acc, ChoiceRecord(option, ctx))
         IN  IF option.l[2].t = "list"
             THEN ExtractItems(option.l[2].l, ctx, acc1)
             ELSE [out |-> acc1, raised |-> FALSE]
    ELSE [out |-> acc, raised |-> FALSE]

ExtractOptions(options, ctx, acc) ==
    IF options = <<>> THEN [out |-> acc, raised |-> FALSE]
    ELSE LET r == ExtractOption(Head(options), ctx, acc)
         IN  IF r.raised THEN r ELSE ExtractOptions(Tail(options), ctx, r.out)

ExtractItems(items, ctx, acc) ==
    IF items = <<>> THEN [out |-> acc, raised |-> FALSE]
    ELSE LET r == ExtractItem(Head(items), ctx, acc)
         IN  IF r.raised THEN r ELSE ExtractItems(Tail(items), ctx, r.out)

extract_dialogues_recursive(dialogue_list, scenario_type, scenario_id, all_dlg, title) ==
    ExtractItems(dialogue_list.l, [type |-> scenario_type, id |-> scenario_id, title |-> title], all_dlg)

(***************************************************************************)
(* The documents the corpora of the model are drawn from.                  *)
(***************************************************************************)
LongLen == 40         \* characters of the long content text

tA == <<65>>  \* 'A'
tB == <<66>>  \* 'B'
tHi == <<104, 105>>  \* 'hi'
tLeft == <<108, 101, 102, 116, 33>>  \* 'left!'
tRight == <<114, 105, 103, 104, 116, 33>>  \* 'right!'
tGoLeft == <<103, 111, 32, 108, 101, 102, 116>>  \* 'go left'
tGoRight == <<103, 111, 32, 114, 105, 103, 104, 116>>  \* 'go right'
tFesTitle == <<70, 101, 115, 60, 98, 114, 62, 79, 110, 101, 32, 124, 115, 117, 98>>  \* 'Fes<br>One |sub'
tTwoTitle == <<32, 84, 119, 111, 32>>  \* ' Two '
tCaulisTitle == <<67, 97, 117, 108, 105, 115>>  \* 'Caulis'
tBadTitle == <<66, 97, 100>>  \* 'Bad'
tOther == <<111, 116, 104, 101, 114>>  \* 'other'
tLong == [i \in 1..LongLen |-> 12354]

sMain1 == <<115, 99, 101, 110, 97, 114, 105, 111, 95, 109, 97, 105, 110, 95, 49>>  \* 'scenario_main_1'
sCard2 == <<115, 99, 101, 110, 97, 114, 105, 111, 95, 99, 97, 114, 100, 95, 50>>  \* 'scenario_card_2'
sEvent7_1 == <<115, 99, 101, 110, 97, 114, 105, 111, 95, 101, 118, 101, 110, 116, 95, 55, 45, 49>>  \* 'scenario_event_7-1'
sEvent07_2 == <<115, 99, 101, 110, 97, 114, 105, 111, 95, 101, 118, 101, 110, 116, 95, 48, 55, 45, 50>>  \* 'scenario_event_07-2'
sEventX_1 == <<115, 99, 101, 110, 97, 114, 105, 111, 95, 101, 118, 101, 110, 116, 95, 120, 45, 49>>  \* 'scenario_event_x-1'
sEvent10_3 == <<115, 99, 101, 110, 97, 114, 105, 111, 95, 101, 118, 101, 110, 116, 95, 49, 48, 45, 51>>  \* 'scenario_event_10-3'
sLove3 == <<115, 99, 101, 110, 97, 114, 105, 111, 95, 108, 111, 118, 101, 95, 51>>  \* 'scenario_love_3'
sCaulis7 == <<99, 97, 117, 108, 105, 115, 95, 115, 116, 111, 114, 121, 95, 55>>  \* 'caulis_story_7'
sSpot4 == <<105, 107, 117, 95, 101, 112, 105, 95, 52>>  \* 'iku_epi_4'
sSpecial8 == <<105, 107, 117, 95, 101, 112, 105, 95, 56>>  \* 'iku_epi_8'
sCampaign5 == <<115, 99, 101, 110, 97, 114, 105, 111, 95, 108, 111, 103, 105, 110, 95, 53>>  \* 'scenario_login_5'
sSecond9 == <<105, 107, 117, 95, 101, 112, 105, 95, 57>>  \* 'iku_epi_9'
sLogin6 == <<115, 99, 101, 110, 97, 114, 105, 111, 95, 108, 111, 103, 105, 110, 95, 54>>  \* 'scenario_login_6'

Line(speaker, content) == JList(<<JStr(speaker), JStr(content)>>)
Option(label, nodes) == JList(<<JStr(label), JList(nodes)>>)
Branch(options) == JDict(<<kBranch>>, <<JList(options)>>)
TitledDoc(title, nodes) == JDict(<<kTitle, kDialogue>>, <<title, JList(nodes)>>)
UntitledDoc(nodes) == JDict(<<kDialogue>>, <<JList(nodes)>>)

\* the branch-ordering example: a line, then a branch of two options
ExampleDialogue ==
    <<Line(tA, tHi),
      Branch(<<Option(tGoLeft, <<Line(tB, tLeft)>>), Option(tGoRight, <<Line(tB, tRight)>>)>>)>>

\* a branch nested in a branch option, between two lines
NestedDialogue ==
    <<Line(tB, tHi),
      Branch(<<Option(tGoLeft,
                 <<Line(tA, tLeft),
                   Branch(<<Option(tGoRight, <<Line(tB, tRight)>>)>>),
                   Line(tA, tHi)>>),
               Option(tGoRight, <<>>)>>),
      Line(tA, tRight)>>

\* node shapes the flattening does not recognise, among lines
OddDialogue ==
    <<JList(<<JStr(tA)>>), Line(tA, tHi), JDict(<<tOther>>, <<JNull>>), JStr(tB),
      Branch(<<JStr(tA), JList(<<JStr(tGoLeft)>>), JList(<<JStr(tGoRight), JNull>>)>>),
      JDict(<<kBranch>>, <<JStr(tA)>>), Line(tB, tLeft)>>

\* lines and a branch among the shapes that are skipped: lists of length 1 and
\* 3, a mapping without branch, null, a text; branch options that are a text, a
\* list of length 1 and an empty list; a number in a nested list
SkippedDialogue ==
    <<JList(<<JStr(tA)>>), Line(tA, tHi), JDict(<<tOther>>, <<JNull>>), JNull, JStr(tB),
      JList(<<JStr(tA), JStr(tHi), JStr(tB)>>),
      Branch(<<JStr(tA), JList(<<JStr(tGoLeft)>>), JList(<<>>),
               Option(tGoRight, <<JInt(1), Line(tB, tRight)>>)>>),
      Line(tB, tLeft)>>

\* a branch whose value cannot be iterated, after one line and before another
BrokenDialogue == <<Line(tA, tHi), JDict(<<kBranch>>, <<JNull>>), Line(tB, tRight)>>

\* the files a corpus may hold; a path is an index into Pool
Pool ==
    << [cat |-> 1, stem |-> sMain1, data |-> UntitledDoc(ExampleDialogue)],
       [cat |-> 2, stem |-> sCard2, data |-> UntitledDoc(BrokenDialogue)],
       [cat |-> 3, stem |-> sEvent7_1, data |-> TitledDoc(JStr(tFesTitle), <<Line(tA, tHi)>>)],
       [cat |-> 3, stem |-> sEvent07_2, data |-> TitledDoc(JStr(tTwoTitle), NestedDialogue)],
       [cat |-> 3, stem |-> sEventX_1, data |-> TitledDoc(JStr(tBadTitle), <<Line(tA, tHi)>>)],
       [cat |-> 3, stem |-> sEvent10_3, data |-> TitledDoc(JNull, <<Line(tB, tHi)>>)],
       [cat |-> 4, stem |-> sLove3, data |-> Unreadable],
       [cat |-> 5, stem |-> sCaulis7, data |-> JDict(<<kTitle>>, <<JStr(tCaulisTitle)>>)],
       [cat |-> 6, stem |-> sSpot4, data |-> UntitledDoc(<<Line(tA, tLong), Line(tB, tHi)>>)],
       [cat |-> 8, stem |-> sSpecial8, data |-> UntitledDoc(OddDialogue)],
       [cat |-> 9, stem |-> sSecond9, data |-> UntitledDoc(SkippedDialogue)],
       [cat |-> 11, stem |-> sCampaign5, data |-> TitledDoc(JNull, <<Line(tA, tHi)>>)],
       [cat |-> 12, stem |-> sLogin6, data |-> JNull] >>

FileAt(path) == Pool[path]

Corpora == {c \in SUBSET DOMAIN Pool : Cardinality(c) <= MaxDocs}

Budgets == {BudgetUnit * k : k \in 1..BudgetSteps}

(***************************************************************************)
(* load_all_dialogues.  The directories it visits, in the order it visits  *)
(* them: the regular types, the ep sub-directories (spot, chara,           *)
(* special/1st, special/2nd, card), login/campaign, login/event.  Each has *)
(* the scenarioType it tags Records with, the file-name prefix its glob    *)
(* matches, the prefix stripped to get the scenario id, and whether event  *)
(* names are extracted from its documents.                                 *)
(***************************************************************************)
Categories == <<
    \* 1: main
    [tag |-> <<109, 97, 105, 110>>,
     glob |-> <<115, 99, 101, 110, 97, 114, 105, 111, 95>>,
     strip |-> <<115, 99, 101, 110, 97, 114, 105, 111, 95, 109, 97, 105, 110, 95>>,
     eventBearing |-> FALSE],
    \* 2: card
    [tag |-> <<99, 97, 114, 100>>,
     glob |-> <<115, 99, 101, 110, 97, 114, 105, 111, 95>>,
     strip |-> <<115, 99, 101, 110, 97, 114, 105, 111, 95, 99, 97, 114, 100, 95>>,
     eventBearing |-> FALSE],
    \* 3: event
    [tag |-> <<101, 118, 101, 110, 116>>,
     glob |-> <<115, 99, 101, 110, 97, 114, 105, 111, 95>>,
     strip |-> <<115, 99, 101, 110, 97, 114, 105, 111, 95, 101, 118, 101, 110, 116, 95>>,
     eventBearing |-> TRUE],
    \* 4: love
    [tag |-> <<108, 111, 118, 101>>,
     glob |-> <<115, 99, 101, 110, 97, 114, 105, 111, 95>>,
     strip |-> <<115, 99, 101, 110, 97, 114, 105, 111, 95, 108, 111, 118, 101, 95>>,
     eventBearing |-> FALSE],
    \* 5: caulis
    [tag |-> <<99, 97, 117, 108, 105, 115>>,
     glob |-> <<99, 97, 117, 108, 105, 115, 95, 115, 116, 111, 114, 121, 95>>,
     strip |-> <<99, 97, 117, 108, 105, 115, 95, 115, 116, 111, 114, 121, 95>>,
     eventBearing |-> TRUE],
    \* 6: ep-spot
    [tag |-> <<101, 112, 45, 115, 112, 111, 116>>,
     glob |-> <<105, 107, 117, 95, 101, 112, 105, 95>>,
     strip |-> <<105, 107, 117, 95, 101, 112, 105, 95>>,
     eventBearing |-> FALSE],
    \* 7: ep-chara
    [tag |-> <<101, 112, 45, 99, 104, 97, 114, 97>>,
     glob |-> <<105, 107, 117, 95, 101, 112, 105, 95>>,
     strip |-> <<105, 107, 117, 95, 101, 112, 105, 95>>,
     eventBearing |-> FALSE],
    \* 8: ep-special-1st
    [tag |-> <<101, 112, 45, 115, 112, 101, 99, 105, 97, 108, 45, 49, 115, 116>>,
     glob |-> <<105, 107, 117, 95, 101, 112, 105, 95>>,
     strip |-> <<105, 107, 117, 95, 101, 112, 105, 95>>,
     eventBearing |-> FALSE],
    \* 9: ep-special-2nd
    [tag |-> <<101, 112, 45, 115, 112, 101, 99, 105, 97, 108, 45, 50, 110, 100>>,
     glob |-> <<105, 107, 117, 95, 101, 112, 105, 95>>,
     strip |-> <<105, 107, 117, 95, 101, 112, 105, 95>>,
     eventBearing |-> FALSE],
    \* 10: ep-card
    [tag |-> <<101, 112, 45, 99, 97, 114, 100>>,
     glob |-> <<105, 107, 117, 95, 101, 112, 105, 95>>,
     strip |-> <<105, 107, 117, 95, 101, 112, 105, 95>>,
     eventBearing |-> FALSE],
    \* 11: campaign
    [tag |-> <<99, 97, 109, 112, 97, 105, 103, 110>>,
     glob |-> <<115, 99, 101, 110, 97, 114, 105, 111, 95, 108, 111, 103, 105, 110, 95>>,
     strip |-> <<115, 99, 101, 110, 97, 114, 105, 111, 95, 108, 111, 103, 105, 110, 95>>,
     eventBearing |-> FALSE],
    \* 12: login-event
    [tag |-> <<108, 111, 103, 105, 110, 45, 101, 118, 101, 110, 116>>,
     glob |-> <<115, 99, 101, 110, 97, 114, 105, 111, 95, 108, 111, 103, 105, 110, 95>>,
     strip |-> <<115, 99, 101, 110, 97, 114, 105, 111, 95, 108, 111, 103, 105, 110, 95>>,
     eventBearing |-> FALSE]
>>

\* A file of the corpus has a directory (index in Categories), a stem and the
\* content json.load finds in it; FileAt(path) is the file a path names.
FileName(f) == f.stem \o DotJson

\* sorted(path.glob(...)): the matching files of one directory by file name
RECURSIVE SortFiles(_)
SortFiles(S) ==
    IF S = {} THEN <<>>
    ELSE LET m == CHOOSE x \in S :
                      \A y \in S \ {x} : LexLess(FileName(FileAt(x)), FileName(FileAt(y)))
         IN  <<m>> \o SortFiles(S \ {m})

GlobSorted(paths, c) ==
    SortFiles({x \in paths : FileAt(x).cat = c /\ StartsWith(FileAt(x).stem, Categories[c].glob)})

\* the paths of the documents in the order load_all_dialogues opens them
Discovery(paths) == Concat([c \in 1..Len(Categories) |-> GlobSorted(paths, c)])

ScenarioId(f) == Replace(f.stem, Categories[f.cat].strip, <<>>)

EventTitle(title_text) == Strip(Replace(FirstSegment(title_text, Bar), BrMarkup, <<Space>>))

\* a slip: the assignment made unconditionally, so the last document wins
InsertEventName_LastWins(names, event_id, event_title) ==
    [i \in DOMAIN names \cup {event_id} |-> IF i = event_id THEN event_title ELSE names[i]]

\* event_names after `if event_id not in event_names: event_names[event_id] = event_title`
InsertEventName(names, event_id, event_title) ==
    IF event_id \in DOMAIN names THEN names
    ELSE [i \in DOMAIN names \cup {event_id} |-> IF i = event_id THEN event_title ELSE names[i]]

\* The event-name block of one loop body: the mapping after it and whether it raised.
ExtractEventName(f, names) ==
    LET data == f.data
        has == HasKey(data, kTitle)
    IN  IF ~Categories[f.cat].eventBearing THEN [names |-> names, raised |-> FALSE]
        ELSE IF has = "raise" THEN [names |-> names, raised |-> TRUE]
        ELSE IF has = "no" THEN [names |-> names, raised |-> FALSE]
        \* data['Title'] of a list or str, or .split of a non-str: TypeError, AttributeError
        ELSE IF data.t # "dict" \/ DictGet(data, kTitle).t # "str"
        THEN [names |-> names, raised |-> TRUE]
        ELSE LET event_title == EventTitle(DictGet(data, kTitle).s)
                 event_id == ParseInt(FirstSegment(ScenarioId(f), Dash))
             IN  IF ~event_id.ok THEN [names |-> names, raised |-> TRUE]
                 ELSE [names |-> InsertEventName(names, event_id.val, event_title),
                       raised |-> FALSE]

\* The dialogue block of one loop body: all_dialogues after it and whether it raised.
ExtractDocument(f, all_dlg) ==
    LET data == f.data
        has == HasKey(data, kDialogue)
    IN  IF has = "raise" THEN [out |-> all_dlg, raised |-> TRUE]
        ELSE IF has = "no" THEN [out |-> all_dlg, raised |-> FALSE]
        \* data['Dialogue'] of a list or str: TypeError
        ELSE IF data.t # "dict" THEN [out |-> all_dlg, raised |-> TRUE]
        ELSE IF DictGet(data, kDialogue).t # "list" THEN [out |-> all_dlg, raised |-> FALSE]
        ELSE LET title == IF kTitle \in SeqRange(data.k) THEN DictGet(data, kTitle)
                          ELSE JStr(<<>>)
             IN  extract_dialogues_recursive(DictGet(data, kDialogue),
                     Categories[f.cat].tag, ScenarioId(f), all_dlg, title)

\* One iteration of a `for json_file in json_files` loop: the try block and its
\* except clause, which prints and continues with whatever was already stored.
ProcessFile(f, all_dlg, names) ==
    IF f.data.t = "unreadable" THEN [out |-> all_dlg, names |-> names, raised |-> TRUE]
    ELSE LET e == ExtractEventName(f, names)
         IN  IF e.raised THEN [out |-> all_dlg, names |-> e.names, raised |-> TRUE]
             ELSE LET d == ExtractDocument(f, all_dlg)
                  IN  [out |-> d.out, names |-> e.names, raised |-> d.raised]

(***************************************************************************)
(* split_into_chunks.                                                      *)
(***************************************************************************)
\* len(json.dumps(dialogue, ensure_ascii=False).encode('utf-8'))
DialogueSize(dialogue) == JsonBytes(RecordJson(dialogue), 2, 2)

\* a slip: the test without `and current_chunk`
StartsNewChunk_NoEmptyGuard(current_size, dialogue_size, chunk_size_bytes, current_chunk) ==
    current_size + dialogue_size > chunk_size_bytes

\* a slip: the test made on the running size alone, before the dialogue is added
StartsNewChunk_IgnoresIncoming(current_size, dialogue_size, chunk_size_bytes, current_chunk) ==
    current_size > chunk_size_bytes /\ current_chunk # <<>>

\* `if current_size + dialogue_size > chunk_size_bytes and current_chunk`
StartsNewChunk(current_size, dialogue_size, chunk_size_bytes, current_chunk) ==
    current_size + dialogue_size > chunk_size_bytes /\ current_chunk # <<>>

\* a slip: the last chunk appended without testing that it holds anything
CloseLastChunk_Always(chunks_acc, current_chunk) == Append(chunks_acc, current_chunk)

\* `if current_chunk: chunks.append(current_chunk)` after the loop
CloseLastChunk(chunks_acc, current_chunk) ==
    IF current_chunk # <<>> THEN Append(chunks_acc, current_chunk) ELSE chunks_acc

RECURSIVE SplitLoop(_, _, _, _, _)
SplitLoop(dialogues, chunk_size_bytes, chunks_acc, current_chunk, current_size) ==
    IF dialogues = <<>> THEN CloseLastChunk(chunks_acc, current_chunk)
    ELSE LET dialogue == Head(dialogues)
             dialogue_size == DialogueSize(dialogue)
         IN  IF StartsNewChunk(current_size, dialogue_size, chunk_size_bytes, current_chunk)
             THEN SplitLoop(Tail(dialogues), chunk_size_bytes,
                            Append(chunks_acc, current_chunk), <<dialogue>>, dialogue_size)
             ELSE SplitLoop(Tail(dialogues), chunk_size_bytes,
                            chunks_acc, Append(current_chunk, dialogue),
                            current_size + dialogue_size)

split_into_chunks(dialogues, chunk_size_bytes) ==
    SplitLoop(dialogues, chunk_size_bytes, <<>>, <<>>, 0)

(***************************************************************************)
(* compress_and_save_chunks: what it builds and what the files hold.       *)
(***************************************************************************)
\* a slip: the count of the chunks written so far instead of the final count
ChunkData_RunningTotal(chunk, idx, total) ==
    [dialogues |-> chunk, chunkIndex |-> idx, totalChunks |-> idx + 1]

\* chunk_data of the loop body
ChunkData(chunk, idx, total) == [dialogues |-> chunk, chunkIndex |-> idx, totalChunks |-> total]

ChunkJson(cd) ==
    JDict(<<kDialogues, kChunkIndex, kTotalChunks>>,
          <<JList([i \in 1..Len(cd.dialogues) |-> RecordJson(cd.dialogues[i])]),
            JInt(cd.chunkIndex), JInt(cd.totalChunks)>>)

\* len(json.dumps(chunk_data, ensure_ascii=False, separators=(',', ':')).encode('utf-8'))
UncompressedSize(cd) == JsonBytes(ChunkJson(cd), 1, 1)

\* gzip.compress(json_bytes, compresslevel=9): a 10-byte header that carries the
\* time of the call (mtime is not passed), the deflate stream, an 8-byte trailer.
\* The deflate stream is kept as the data it decodes to; its length is taken as
\* that of a stored (uncompressed) stream.
GzipCompress(cd, clock) == [state |-> "ok", mtime |-> clock, data |-> cd]

\* len(compressed), from len(json_bytes)
CompressedSize(uncompressed_size) == 10 + uncompressed_size + 8

\* f'search-chunk-{idx}.gz': the files of the output directory are keyed by idx
ChunkFilename(idx) == idx

\* a chunk file whose open('wb') truncated it and whose write did not complete
PartialFile == [state |-> "partial", mtime |-> 0, data |-> ChunkData(<<>>, 0, 0)]

ChunkDescriptor(cd, uncompressed_size, compressed_size) ==
    [filename |-> ChunkFilename(cd.chunkIndex), index |-> cd.chunkIndex,
     uncompressedSize |-> uncompressed_size, compressedSize |-> compressed_size,
     dialogueCount |-> Len(cd.dialogues)]

\* chunk_manifest as first built
NewManifest(ver, clock, chunk_list) ==
    [version |-> ver, timestamp |-> clock, totalChunks |-> Len(chunk_list), chunks |-> <<>>]

\* the manifest as dumped: eventNames and totalCompressedSize added
FinalManifest(m, names, total) ==
    [version |-> m.version, timestamp |-> m.timestamp, totalChunks |-> m.totalChunks,
     chunks |-> m.chunks, eventNames |-> names, totalCompressedSize |-> total]

NoManifest ==
    [state |-> "absent", m |-> FinalManifest(NewManifest(0, 0, <<>>), <<>>, 0)]

PartialManifest ==
    [state |-> "partial", m |-> FinalManifest(NewManifest(0, 0, <<>>), <<>>, 0)]

\* datetime.now().strftime('%Y-%m-%d'): the calendar date of the clock reading
DateOf(clock) == clock \div TicksPerDay

(***************************************************************************)
(* State.                                                                  *)
(***************************************************************************)
VARIABLES
    corpus,             \* the paths of the files under public/scenario
    chunk_size_bytes,   \* the budget main passes to split_into_chunks
    now,                \* the reading of the clock
    run,                \* which build this is
    pc,                 \* where main is: main, load, compress, write, summary,
                        \* or how it ended: done, crashed, aborted
    version,            \* main's version
    json_files,         \* the paths still to be opened, in order
    all_dialogues,      \* load_all_dialogues' all_dialogues
    event_names,        \* load_all_dialogues' event_names
    chunks,             \* the result of split_into_chunks
    chunk_manifest,     \* compress_and_save_chunks' chunk_manifest
    idx,                \* index of the next chunk to write
    total_uncompressed,
    total_compressed,
    disk_chunks,        \* public/data/chunks/search-chunk-<i>.gz, by i
    disk_manifest,      \* public/data/chunks/manifest.json
    prev_chunks,        \* the chunk files as the previous build ended
    prev_manifest,      \* the manifest as the previous build ended
    prev_pc,            \* how the previous build ended
    same_corpus,        \* the corpus is as the previous build saw it
    deploy_pc,          \* where deploy.py's main is: start, pulled, minified,
                        \* manifests, or the return it left by; none when
                        \* build_search_chunks.py is run by hand
    temp_scenario       \* the paths of the files under .github/temp_scenario

vars == <<corpus, chunk_size_bytes, now, run, pc, version, json_files, all_dialogues,
          event_names, chunks, chunk_manifest, idx, total_uncompressed,
          total_compressed, disk_chunks, disk_manifest, prev_chunks, prev_manifest,
          prev_pc, same_corpus, deploy_pc, temp_scenario>>

loadVars == <<json_files, all_dialogues, event_names>>
saveVars == <<chunk_manifest, idx, total_uncompressed, total_compressed>>
diskVars == <<disk_chunks, disk_manifest>>
prevVars == <<prev_chunks, prev_manifest, prev_pc, same_corpus>>
deployVars == <<deploy_pc, temp_scenario>>
envVars == <<corpus, chunk_size_bytes, run, deployVars>>

\* a mapping with no entries
EmptyMap == <<>>

Init ==
    /\ corpus \in Corpora
    /\ chunk_size_bytes \in Budgets
    /\ now = 0
    /\ run = 1
    /\ pc = "main"
    /\ version = 0
    /\ json_files = <<>>
    /\ all_dialogues = <<>>
    /\ event_names = EmptyMap
    /\ chunks = <<>>
    /\ chunk_manifest = NewManifest(0, 0, <<>>)
    /\ idx = 0
    /\ total_uncompressed = 0
    /\ total_compressed = 0
    /\ disk_chunks = EmptyMap
    /\ disk_manifest = NoManifest
    /\ prev_chunks = EmptyMap
    /\ prev_manifest = NoManifest
    /\ prev_pc = "none"
    /\ same_corpus = FALSE
    /\ deploy_pc = "none"
    /\ temp_scenario = {}

(***************************************************************************)
(* Actions.                                                                *)
(***************************************************************************)
\* open(path, 'wb' or 'w') followed by a completed write: the file is replaced
WriteFile(disk, i, file) ==
    [j \in DOMAIN disk \cup {i} |-> IF j = i THEN file ELSE disk[j]]

\* main, up to the first loop of load_all_dialogues
Main ==
    /\ pc = "main"
    /\ version' = DateOf(now)
    /\ json_files' = Discovery(corpus)
    /\ all_dialogues' = <<>>
    /\ event_names' = EmptyMap
    /\ pc' = "load"
    /\ UNCHANGED <<envVars, now, chunks, saveVars, diskVars, prevVars>>

\* one iteration of a document loop of load_all_dialogues
LoadDocument ==
    /\ pc = "load"
    /\ json_files # <<>>
    /\ LET r == ProcessFile(FileAt(Head(json_files)), all_dialogues, event_names)
       IN  /\ all_dialogues' = r.out
           /\ event_names' = r.names
    /\ json_files' = Tail(json_files)
    /\ UNCHANGED <<envVars, now, pc, version, chunks, saveVars, diskVars, prevVars>>

\* load_all_dialogues returns; main calls split_into_chunks
SplitIntoChunks ==
    /\ pc = "load"
    /\ json_files = <<>>
    /\ chunks' = split_into_chunks(all_dialogues, chunk_size_bytes)
    /\ pc' = "compress"
    /\ UNCHANGED <<envVars, now, version, loadVars, saveVars, diskVars, prevVars>>

\* compress_and_save_chunks up to its loop
BeginSave ==
    /\ pc = "compress"
    /\ chunk_manifest' = NewManifest(version, now, chunks)
    /\ idx' = 0
    /\ total_uncompressed' = 0
    /\ total_compressed' = 0
    /\ pc' = "write"
    /\ UNCHANGED <<envVars, now, version, loadVars, chunks, diskVars, prevVars>>

\* one iteration of the chunk loop, the write succeeding
WriteChunk ==
    /\ pc = "write"
    /\ idx < Len(chunks)
    /\ LET cd == ChunkData(chunks[idx + 1], idx, Len(chunks))
           uncompressed_size == UncompressedSize(cd)
           compressed_size == CompressedSize(uncompressed_size)
       IN  /\ disk_chunks' = WriteFile(disk_chunks, ChunkFilename(idx), GzipCompress(cd, now))
           /\ total_uncompressed' = total_uncompressed + uncompressed_size
           /\ total_compressed' = total_compressed + compressed_size
           /\ chunk_manifest' =
                 [chunk_manifest EXCEPT !.chunks =
                     Append(@, ChunkDescriptor(cd, uncompressed_size, compressed_size))]
    /\ idx' = idx + 1
    /\ UNCHANGED <<envVars, now, pc, version, loadVars, chunks, disk_manifest, prevVars>>

\* one iteration of the chunk loop, open() or write() raising OSError: nothing
\* catches it, the process ends.  open() failing leaves the file as it was,
\* write() failing leaves it truncated.
WriteChunkFails ==
    /\ pc = "write"
    /\ idx < Len(chunks)
    /\ \/ disk_chunks' = disk_chunks
       \/ disk_chunks' = WriteFile(disk_chunks, ChunkFilename(idx), PartialFile)
    /\ pc' = "aborted"
    /\ UNCHANGED <<envVars, now, version, loadVars, chunks, saveVars, disk_manifest, prevVars>>

\* after the loop: the manifest is completed and dumped
WriteManifest ==
    /\ pc = "write"
    /\ idx = Len(chunks)
    /\ disk_manifest' =
          [state |-> "ok", m |-> FinalManifest(chunk_manifest, event_names, total_compressed)]
    /\ pc' = "summary"
    /\ UNCHANGED <<envVars, now, version, loadVars, chunks, saveVars, disk_chunks, prevVars>>

WriteManifestFails ==
    /\ pc = "write"
    /\ idx = Len(chunks)
    /\ \/ disk_manifest' = disk_manifest
       \/ disk_manifest' = PartialManifest
    /\ pc' = "aborted"
    /\ UNCHANGED <<envVars, now, version, loadVars, chunks, saveVars, disk_chunks, prevVars>>

\* the summary prints: the overall ratio divides by total_uncompressed, so with
\* no chunk the call ends in ZeroDivisionError; otherwise main prints and returns
Summary ==
    /\ pc = "summary"
    /\ pc' = IF total_uncompressed = 0 THEN "crashed" ELSE "done"
    /\ UNCHANGED <<envVars, now, version, loadVars, chunks, saveVars, diskVars, prevVars>>

\* the corpus a later build may find: unchanged, or a document removed
NextCorpora(c) == {c} \cup {c \ {f} : f \in c}

\* the script is started again on the same output directory, after a build
\* that got as far as writing its manifest
Rerun ==
    /\ pc \in {"done", "crashed"}
    /\ run < MaxRuns
    /\ run' = run + 1
    /\ \E c \in NextCorpora(corpus) :
          /\ corpus' = c
          /\ same_corpus' = (c = corpus)
    /\ prev_chunks' = disk_chunks
    /\ prev_manifest' = disk_manifest
    /\ prev_pc' = pc
    /\ pc' = "main"
    /\ version' = 0
    /\ json_files' = <<>>
    /\ all_dialogues' = <<>>
    /\ event_names' = EmptyMap
    /\ chunks' = <<>>
    /\ chunk_manifest' = NewManifest(0, 0, <<>>)
    /\ idx' = 0
    /\ total_uncompressed' = 0
    /\ total_compressed' = 0
    /\ UNCHANGED <<chunk_size_bytes, now, diskVars, deployVars>>

\* time passes
Tick ==
    /\ pc = "main"
    /\ now < MaxClock
    /\ now' = now + 1
    /\ UNCHANGED <<envVars, pc, version, loadVars, chunks, saveVars, diskVars, prevVars>>

\* one build, started on an empty output directory
Next ==
    \/ Main
    \/ LoadDocument
    \/ SplitIntoChunks
    \/ BeginSave
    \/ WriteChunk
    \/ WriteChunkFails
    \/ WriteManifest
    \/ WriteManifestFails
    \/ Summary

Spec == Init /\ [][Next]_vars

\* builds one after the other on the same output directory, time passing between
NextRebuild ==
    \/ Next
    \/ Rerun
    \/ Tick

SpecRebuild == Init /\ [][NextRebuild]_vars

(***************************************************************************)
(* deploy.py: the scenario repository is pulled, its JSON files are        *)
(* minified into public/scenario, and build_search_chunks.py is run as a   *)
(* child process.                                                          *)
(***************************************************************************)
\* minify_json: json.load of the source, then json.dump of what was loaded to
\* the target (only the layout of the text changes, the value read back is the
\* value loaded); any exception is caught and reported as False, and a source
\* that does not load leaves no target file
minify_json(path) == FileAt(path).data.t # "unreadable"

\* the files minify_scenario_files writes, over all scenario types
Minified(paths) == {p \in paths : minify_json(p)}

\* the status the child process ends with: 0 when main returns, 1 when an
\* uncaught exception (ZeroDivisionError, OSError) ends the interpreter
BuildExitStatus(build_pc) == IF build_pc = "done" THEN 0 ELSE 1

\* the value main returns, which exit() makes the status of deploy.py
ExitCode(return_site) == IF return_site = "return_ok" THEN 0 ELSE 1

\* the returns of main
ReturnSites == {"return_pull", "return_manifests", "return_ok", "return_error"}

\* deploy.py is started in a checkout without scenario files
InitDeploy ==
    /\ corpus = {}
    /\ chunk_size_bytes \in Budgets
    /\ now = 0
    /\ run = 1
    /\ pc = "idle"
    /\ version = 0
    /\ json_files = <<>>
    /\ all_dialogues = <<>>
    /\ event_names = EmptyMap
    /\ chunks = <<>>
    /\ chunk_manifest = NewManifest(0, 0, <<>>)
    /\ idx = 0
    /\ total_uncompressed = 0
    /\ total_compressed = 0
    /\ disk_chunks = EmptyMap
    /\ disk_manifest = NoManifest
    /\ prev_chunks = EmptyMap
    /\ prev_manifest = NoManifest
    /\ prev_pc = "none"
    /\ same_corpus = FALSE
    /\ deploy_pc = "start"
    /\ temp_scenario = {}

buildVars == <<now, pc, version, loadVars, chunks, saveVars, diskVars, prevVars>>

\* pull_scenario_repository returns True: git clone (or git pull) succeeded and
\* the temporary directory holds the scenario repository
PullScenarioRepository ==
    /\ deploy_pc = "start"
    /\ temp_scenario' \in Corpora
    /\ deploy_pc' = "pulled"
    /\ UNCHANGED <<corpus, chunk_size_bytes, run, buildVars>>

\* run_command catches CalledProcessError: pull_scenario_repository returns
\* False and main returns 1
PullFails ==
    /\ deploy_pc = "start"
    /\ deploy_pc' = "return_pull"
    /\ UNCHANGED <<corpus, chunk_size_bytes, run, temp_scenario, buildVars>>

\* steps 2 and 2.5 of main: every scenario type is minified into
\* public/scenario; a file that fails only makes main print a warning
MinifyScenarioFiles ==
    /\ deploy_pc = "pulled"
    /\ corpus' = corpus \cup Minified(temp_scenario)
    /\ deploy_pc' = "minified"
    /\ UNCHANGED <<chunk_size_bytes, run, temp_scenario, buildVars>>

\* listing the temporary directory or creating a target directory raises
\* OSError: the except clause of main returns 1
DirectoryUnavailable ==
    /\ deploy_pc = "pulled"
    /\ deploy_pc' = "return_error"
    /\ UNCHANGED <<corpus, chunk_size_bytes, run, temp_scenario, buildVars>>

\* generate_manifests starts scripts/build_search_chunks.py and waits for it
GenerateManifests ==
    /\ deploy_pc = "minified"
    /\ pc = "idle"
    /\ pc' = "main"
    /\ deploy_pc' = "manifests"
    /\ UNCHANGED <<corpus, chunk_size_bytes, run, temp_scenario, now, version, loadVars, chunks, saveVars, diskVars, prevVars>>

\* the child ended with status 0: generate_manifests returns True, main
\* removes the temporary directory and returns 0
ManifestsGenerated ==
    /\ deploy_pc = "manifests"
    /\ pc \in {"done", "crashed", "aborted"}
    /\ BuildExitStatus(pc) = 0
    /\ temp_scenario' = {}
    /\ deploy_pc' = "return_ok"
    /\ UNCHANGED <<corpus, chunk_size_bytes, run, buildVars>>

\* the child ended with another status: check=True raises CalledProcessError,
\* generate_manifests returns False and main returns 1
ManifestsFail ==
    /\ deploy_pc = "manifests"
    /\ pc \in {"done", "crashed", "aborted"}
    /\ BuildExitStatus(pc) # 0
    /\ deploy_pc' = "return_manifests"
    /\ UNCHANGED <<corpus, chunk_size_bytes, run, temp_scenario, buildVars>>

\* shutil.rmtree raises after generate_manifests returned True: the except
\* clause of main returns 1
CleanupFails ==
    /\ deploy_pc = "manifests"
    /\ pc = "done"
    /\ deploy_pc' = "return_error"
    /\ UNCHANGED <<corpus, chunk_size_bytes, run, temp_scenario, buildVars>>

\* deploy.py from start to exit, the build running as its child
NextDeploy ==
    \/ PullScenarioRepository
    \/ PullFails
    \/ MinifyScenarioFiles
    \/ DirectoryUnavailable
    \/ GenerateManifests
    \/ Next
    \/ ManifestsGenerated
    \/ ManifestsFail
    \/ CleanupFails

SpecDeploy == InitDeploy /\ [][NextDeploy]_vars

(***************************************************************************)
(* Properties.                                                             *)
(***************************************************************************)
\* split_into_chunks has just returned: chunks is its result for all_dialogues
AfterSplit == pc = "compress"

ManifestWritten == pc \in {"summary", "done", "crashed"}

\* the documents load_all_dialogues has been through so far in this run
Processed ==
    IF pc = "main" THEN <<>>
    ELSE LET order == Discovery(corpus)
         IN  [i \in 1..(Len(order) - Len(json_files)) |-> FileAt(order[i])]

ChunkBytes(chunk) == SumSeq([i \in 1..Len(chunk) |-> DialogueSize(chunk[i])])

Oversized(dialogue) == DialogueSize(dialogue) > chunk_size_bytes

\* C1: the chunks split_into_chunks returns are non-empty and, concatenated in
\* chunk order then intra-chunk order, are exactly the Record sequence it was given.
LosslessPartition ==
    AfterSplit =>
        /\ Concat(chunks) = all_dialogues
        /\ \A i \in 1..Len(chunks) : chunks[i] # <<>>

LosslessPartitionWitness ==
    /\ AfterSplit
    /\ Len(chunks) >= 2
    /\ \E i \in 1..Len(chunks) : Len(chunks[i]) >= 2
    /\ \E i \in 1..Len(chunks) : Len(chunks[i]) = 1 /\ Oversized(chunks[i][1])

\* C2: every chunk's size, the sum of its Records' encoded sizes, is at most the
\* budget, except a chunk of exactly one Record larger than the budget; a Record
\* larger than the budget is always alone in its chunk.
SizeBound ==
    AfterSplit =>
        \A i \in 1..Len(chunks) :
            /\ \/ ChunkBytes(chunks[i]) <= chunk_size_bytes
               \/ Len(chunks[i]) = 1 /\ Oversized(chunks[i][1])
            /\ \A j \in 1..Len(chunks[i]) : Oversized(chunks[i][j]) => Len(chunks[i]) = 1

SizeBoundWitness ==
    /\ AfterSplit
    /\ \E i \in 1..Len(chunks) : Len(chunks[i]) = 1 /\ Oversized(chunks[i][1])
    /\ \E i \in 1..Len(chunks) :
          /\ Len(chunks[i]) >= 2
          /\ i < Len(chunks)
          /\ ChunkBytes(chunks[i]) + DialogueSize(chunks[i + 1][1]) > chunk_size_bytes

\* C3: each chunk file written by the run stores, as totalChunks, the number of
\* chunks the chunker produced and, as chunkIndex, its 0-based position; the
\* manifest's totalChunks is the same count.
ChunkCountConsistency ==
    LET total == Len(chunks)
    IN  /\ pc \in {"write", "summary", "done", "crashed", "aborted"} =>
              \A i \in 0..(idx - 1) :
                  /\ i \in DOMAIN disk_chunks
                  /\ disk_chunks[i].state = "ok"
                  /\ disk_chunks[i].data.totalChunks = total
                  /\ disk_chunks[i].data.chunkIndex = i
                  /\ disk_chunks[i].data.dialogues = chunks[i + 1]
        /\ ManifestWritten =>
              /\ disk_manifest.state = "ok"
              /\ disk_manifest.m.totalChunks = total
              /\ idx = total

ChunkCountConsistencyWitness ==
    /\ pc = "done"
    /\ Len(chunks) >= 3
    /\ disk_chunks[0].data.totalChunks = Len(chunks)

(***************************************************************************)
(* The data model's node shapes and the flattening they call for, stated   *)
(* on its own: a Line is a pair of texts, a Branch a list of options, each *)
(* a choice label and a nested list of nodes.                              *)
(***************************************************************************)
IsLineNode(n) == n.t = "list" /\ Len(n.l) = 2 /\ n.l[1].t = "str" /\ n.l[2].t = "str"

IsOptionShape(o) == o.t = "list" /\ Len(o.l) = 2 /\ o.l[1].t = "str" /\ o.l[2].t = "list"

IsBranchShape(n) ==
    /\ n.t = "dict"
    /\ n.k = <<kBranch>>
    /\ n.l[1].t = "list"
    /\ \A j \in 1..Len(n.l[1].l) : IsOptionShape(n.l[1].l[j])

RECURSIVE WellFormedNodes(_)
WellFormedNodes(nodes) ==
    \A i \in 1..Len(nodes) :
        \/ IsLineNode(nodes[i])
        \/ /\ IsBranchShape(nodes[i])
           /\ \A j \in 1..Len(nodes[i].l[1].l) : WellFormedNodes(nodes[i].l[1].l[j].l[2].l)

\* depth-first, left-to-right: the speaker and content of each Record due
RECURSIVE DepthFirst(_)
DepthFirst(nodes) ==
    Concat([i \in 1..Len(nodes) |->
        IF IsLineNode(nodes[i])
        THEN <<[speaker |-> nodes[i].l[1], content |-> nodes[i].l[2]]>>
        ELSE Concat([j \in 1..Len(nodes[i].l[1].l) |->
                 <<[speaker |-> JStr(ChoiceSpeaker), content |-> nodes[i].l[1].l[j].l[1]]>>
                 \o DepthFirst(nodes[i].l[1].l[j].l[2].l)])])

\* a document whose dialogue list is made of Line and Branch nodes only and
\* whose loop body raises nothing
WellFormedDoc(f) ==
    /\ f.data.t = "dict"
    /\ kDialogue \in SeqRange(f.data.k)
    /\ DictGet(f.data, kDialogue).t = "list"
    /\ WellFormedNodes(DictGet(f.data, kDialogue).l)
    /\ ~ExtractEventName(f, EmptyMap).raised

\* the Records of all_dialogues that carry the document's category and scenario id
RecordsOf(f) ==
    SelectSeq(all_dialogues,
              LAMBDA r : /\ r.scenarioType = JStr(Categories[f.cat].tag)
                         /\ r.scenarioId = JStr(ScenarioId(f)))

SpeakerContent(records) ==
    [i \in 1..Len(records) |-> [speaker |-> records[i].speaker, content |-> records[i].content]]

\* C4: flattening is depth-first and left-to-right: a Line gives one Record with
\* its speaker and content; a Branch gives, for each option in order, one Record
\* with the choice-marker speaker and the option's label, followed at once by the
\* Records of the option's nested list, before the next option's and before any
\* later sibling's.
BranchOrdering ==
    pc = "compress" =>
        \A i \in 1..Len(Processed) :
            WellFormedDoc(Processed[i]) =>
                SpeakerContent(RecordsOf(Processed[i]))
                    = DepthFirst(DictGet(Processed[i].data, kDialogue).l)

\* a document with a branch nested in a branch option has been flattened
BranchOrderingWitness ==
    /\ pc = "compress"
    /\ \E i \in 1..Len(Processed) :
          /\ WellFormedDoc(Processed[i])
          /\ DictGet(Processed[i].data, kDialogue).l = NestedDialogue
          /\ Len(RecordsOf(Processed[i])) = 8

(***************************************************************************)
(* Event names.                                                            *)
(***************************************************************************)
\* the document reaches the insertion into event_names for this event id
MapsToEvent(f, id) ==
    LET e == ExtractEventName(f, EmptyMap)
    IN  f.data.t # "unreadable" /\ ~e.raised /\ id \in DOMAIN e.names

EventTitleOf(f, id) == ExtractEventName(f, EmptyMap).names[id]

\* the event ids the document reaches the insertion for (none or one)
EventIdsOf(f) ==
    LET e == ExtractEventName(f, EmptyMap)
    IN  IF f.data.t = "unreadable" \/ e.raised THEN {} ELSE DOMAIN e.names

FirstWinsState ==
    LET done == Processed
        ids == [i \in 1..Len(done) |-> EventIdsOf(done[i])]
    IN  /\ \A id \in DOMAIN event_names :
              /\ \E i \in 1..Len(done) : id \in ids[i]
              /\ LET first == CHOOSE i \in 1..Len(done) :
                                 id \in ids[i] /\ \A j \in 1..(i - 1) : id \notin ids[j]
                 IN  event_names[id] = EventTitleOf(done[first], id)
        /\ \A i \in 1..Len(done) : ids[i] \subseteq DOMAIN event_names

EntriesKept ==
    run' = run =>
        \A id \in DOMAIN event_names :
            id \in DOMAIN event_names' /\ event_names'[id] = event_names[id]

\* C5: within a run an entry of the event-name mapping, once made, never changes,
\* and the entry of an event id is the title of the first document, in discovery
\* order, that maps to that id.
EventNameFirstWins == []FirstWinsState /\ [][EntriesKept]_vars

\* two documents with different titles mapping to one event id have been processed
EventNameFirstWinsWitness ==
    \E i, j \in 1..Len(Processed) : \E id \in DOMAIN event_names :
        /\ i < j
        /\ MapsToEvent(Processed[i], id)
        /\ MapsToEvent(Processed[j], id)
        /\ EventTitleOf(Processed[i], id) # EventTitleOf(Processed[j], id)
        /\ event_names[id] = EventTitleOf(Processed[i], id)

(***************************************************************************)
(* The output directory.                                                   *)
(***************************************************************************)
\* C6: the manifest on disk never references a chunk file whose write failed or
\* has not completed, whether the run started on an empty output directory or
\* on one holding a prior build.
ManifestReferencesWrittenChunks ==
    disk_manifest.state = "ok" =>
        \A i \in 1..Len(disk_manifest.m.chunks) :
            /\ disk_manifest.m.chunks[i].filename \in DOMAIN disk_chunks
            /\ disk_chunks[disk_manifest.m.chunks[i].filename].state = "ok"

\* what the loop body of load_all_dialogues yields for a document on its own
AloneRecords(f) == ProcessFile(f, <<>>, EmptyMap)

\* C7: a malformed document, also one that fails part-way through flattening or
\* event-name extraction, never aborts the run and contributes no Records; every
\* other document's Records are produced in discovery order.
MalformedDocumentSkipped ==
    pc = "compress" =>
        all_dialogues =
            Concat([i \in 1..Len(Processed) |->
                       IF AloneRecords(Processed[i]).raised THEN <<>>
                       ELSE AloneRecords(Processed[i]).out])

\* C8: an empty Record sequence yields zero chunks, and the packager run on the
\* empty chunk list writes a manifest with totalChunks 0 and no chunk descriptor.
EmptyInput ==
    /\ (AfterSplit /\ all_dialogues = <<>>) => chunks = <<>>
    /\ (ManifestWritten /\ chunks = <<>>) =>
          /\ disk_manifest.state = "ok"
          /\ disk_manifest.m.totalChunks = 0
          /\ disk_manifest.m.chunks = <<>>

\* the packager has written the manifest of a build that found no Record
EmptyInputWitness ==
    /\ ManifestWritten
    /\ all_dialogues = <<>>
    /\ chunks = <<>>
    /\ disk_manifest.state = "ok"
    /\ disk_manifest.m.totalChunks = 0

\* C9: after a completed build the chunk files in the output directory are
\* exactly this build's: each search-chunk-<i> present has i below the
\* manifest's totalChunks and holds this build's content.
OnlyThisBuildsChunks ==
    pc = "done" =>
        \A i \in DOMAIN disk_chunks :
            /\ i < disk_manifest.m.totalChunks
            /\ disk_chunks[i].state = "ok"
            /\ disk_chunks[i].data = ChunkData(chunks[i + 1], i, Len(chunks))

ExceptTimestamp(m) == [m EXCEPT !.timestamp = 0]

\* C10: two runs on the same corpus and budget leave identical chunk files and
\* manifests equal in every field but timestamp, the version included, whatever
\* the clock reads at each run.
IdempotentRerun ==
    (pc = "done" /\ prev_pc = "done" /\ same_corpus) =>
        /\ disk_chunks = prev_chunks
        /\ ExceptTimestamp(disk_manifest.m) = ExceptTimestamp(prev_manifest.m)

\* C11: the orchestration run exits with code 0 whenever it runs to completion,
\* also with skipped or unminified files and over an empty corpus; it exits
\* non-zero only on a failure outside the indexing core: the pull or clone
\* failing, a directory being unavailable, or a write to the disk failing.
DeployExitCode ==
    (deploy_pc \in ReturnSites /\ ExitCode(deploy_pc) # 0) =>
        \/ deploy_pc \in {"return_pull", "return_error"}
        \/ pc = "aborted"

(***************************************************************************)
(* Node shapes that are not recognised.                                    *)
(***************************************************************************)
\* neither a list of length 2 nor a mapping with a branch key
UnrecognisedNode(n) ==
    /\ ~(n.t = "list" /\ Len(n.l) = 2)
    /\ ~(n.t = "dict" /\ kBranch \in SeqRange(n.k))

\* not a list of at least 2 elements
UnrecognisedOption(o) == ~(o.t = "list" /\ Len(o.l) >= 2)

\* the node list with every node and every branch option of an unrecognised
\* shape taken out, at every depth
RECURSIVE Recognised(_)
RecognisedOptions(b) ==
    IF b.t = "list"
    THEN LET kept == SelectSeq(b.l, LAMBDA o : ~UnrecognisedOption(o))
         IN  JList([j \in 1..Len(kept) |->
                 IF kept[j].l[2].t = "list"
                 THEN [kept[j] EXCEPT !.l[2] = JList(Recognised(kept[j].l[2].l))]
                 ELSE kept[j]])
    \* the characters of a text, the keys of a mapping: none is a list
    ELSE IF b.t \in {"str", "dict"} THEN JList(<<>>)
    ELSE b

Recognised(nodes) ==
    LET kept == SelectSeq(nodes, LAMBDA n : ~UnrecognisedNode(n))
    IN  [i \in 1..Len(kept) |->
            IF kept[i].t = "dict"
            THEN [kept[i] EXCEPT !.l =
                     [j \in 1..Len(kept[i].l) |->
                         IF kept[i].k[j] = kBranch THEN RecognisedOptions(kept[i].l[j])
                         ELSE kept[i].l[j]]]
            ELSE kept[i]]

HasDialogueList(f) ==
    /\ f.data.t = "dict"
    /\ kDialogue \in SeqRange(f.data.k)
    /\ DictGet(f.data, kDialogue).t = "list"

\* the document with the unrecognised shapes taken out of its dialogue list
RecognisedDoc(f) ==
    [f EXCEPT !.data.l =
        [j \in 1..Len(f.data.l) |->
            IF f.data.k[j] = kDialogue THEN JList(Recognised(f.data.l[j].l))
            ELSE f.data.l[j]]]

\* C12: a node of unrecognised shape (a list whose length is not 2, a mapping
\* without a branch key, any other value, a branch option that is not a list
\* of at least 2 elements) emits no Record and raises no error, and the Records
\* of the nodes after it are emitted in order: a document yields what it yields
\* with those nodes and options taken out, and when what remains is made of
\* Line and Branch nodes only, exactly their Records, depth-first.
UnrecognisedSkipped ==
    pc = "compress" =>
        \A i \in 1..Len(Processed) :
            LET f == Processed[i]
            IN  HasDialogueList(f) =>
                    /\ AloneRecords(f) = AloneRecords(RecognisedDoc(f))
                    /\ WellFormedDoc(RecognisedDoc(f)) =>
                          /\ ~AloneRecords(f).raised
                          /\ SpeakerContent(RecordsOf(f))
                                = DepthFirst(Recognised(DictGet(f.data, kDialogue).l))

\* a document with nodes and options of every unrecognised shape has been
\* flattened: the four Records of its line, its option, the option's nested
\* line and the line that follows the branch
UnrecognisedSkippedWitness ==
    /\ pc = "compress"
    /\ \E i \in 1..Len(Processed) :
          /\ HasDialogueList(Processed[i])
          /\ DictGet(Processed[i].data, kDialogue).l = SkippedDialogue
          /\ \E n \in SeqRange(SkippedDialogue) : UnrecognisedNode(n)
          /\ Recognised(SkippedDialogue) # SkippedDialogue
          /\ Len(RecordsOf(Processed[i])) = 4
          /\ RecordsOf(Processed[i])[4].content = JStr(tLeft)

====
